---------------------------- MODULE Spec2Model ----------------------------
(***************************************************************************)
(* build-cameras.js: a one-shot static-site build.  It lists a data        *)
(* directory, parses every *.json entry into a camera record, sorts and    *)
(* groups the records, renders one page per record and an index page, and  *)
(* writes them to the output directory.                                    *)
(*                                                                         *)
(* JavaScript strings are modelled as sequences of one-character strings,  *)
(* so that escaping, lower-casing, basename and substring search are       *)
(* computed character by character.  A rendered document is a sequence of  *)
(* pieces: the literal text of the template, and the values interpolated   *)
(* into it, each tagged with the record field it comes from.  The three    *)
(* characters of the templates outside ASCII are written {ndash}, {mdash}  *)
(* and {middot}; white space between tags is left out, and a run of        *)
(* template text that interpolates nothing is shortened with "...".        *)
(***************************************************************************)
EXTENDS Integers, Sequences, FiniteSets, TLC

VARIABLES
    dir,        \* the entries of DATA_DIR as readdirSync enumerates them
    pc,         \* position of the script
    files,      \* line 12: the entries that end with .json
    cameras,    \* line 13/16: the parsed records, sorted at line 16
    brands,     \* lines 19-23: brand -> records of that brand
    k,          \* index of the record the page loop (line 143) is at
    html,       \* line 173: the page computed in the current iteration
    indexHtml,  \* line 296: the index document
    written,    \* the files written to OUT_DIR by this run, in write order
    err,        \* the error that ended the run, "none" while there is none
    log         \* line 372: the number the console summary reports

vars == <<dir, pc, files, cameras, brands, k, html, indexHtml, written, err, log>>

-----------------------------------------------------------------------------
(* Bounds of the model. *)

\* the most entries the data directory holds
MaxFiles == 3

-----------------------------------------------------------------------------
(* Generic helpers. *)

Has(r, f) == f \in DOMAIN r

Range(s) == {s[i] : i \in 1..Len(s)}

RECURSIVE Flatten(_)
Flatten(ss) == IF ss = <<>> THEN <<>> ELSE Head(ss) \o Flatten(Tail(ss))

\* Array.prototype.join
RECURSIVE Join(_, _)
Join(ss, sep) ==
    IF ss = <<>> THEN <<>>
    ELSE IF Len(ss) = 1 THEN ss[1]
    ELSE ss[1] \o sep \o Join(Tail(ss), sep)

\* String(n) for a natural number n
RECURSIVE ToStr(_)
ToStr(n) ==
    LET digit == <<"0", "1", "2", "3", "4", "5", "6", "7", "8", "9">>
    IN  IF n < 10 THEN <<digit[n + 1]>>
        ELSE ToStr(n \div 10) \o <<digit[(n % 10) + 1]>>

\* String.prototype.replace(/c/g, by): every occurrence of the character c
RECURSIVE ReplaceAll(_, _, _)
ReplaceAll(s, c, by) ==
    IF s = <<>> THEN <<>>
    ELSE (IF Head(s) = c THEN by ELSE <<Head(s)>>) \o ReplaceAll(Tail(s), c, by)

\* String.prototype.includes
Includes(s, sub) ==
    \E i \in 0..(Len(s) - Len(sub)) :
        \A j \in 1..Len(sub) : s[i + j] = sub[j]

LowerCase == <<"a", "b", "c", "d", "e", "f", "g", "h", "i", "j", "k", "l", "m", "n", "o", "p", "q", "r", "s", "t", "u", "v", "w", "x", "y", "z">>

UpperCase == <<"A", "B", "C", "D", "E", "F", "G", "H", "I", "J", "K", "L", "M", "N", "O", "P", "Q", "R", "S", "T", "U", "V", "W", "X", "Y", "Z">>

\* the position of a letter in the alphabet, 0 for any other character
LetterIndex(c, alphabet) ==
    IF \E i \in 1..Len(alphabet) : alphabet[i] = c
    THEN CHOOSE i \in 1..Len(alphabet) : alphabet[i] = c
    ELSE 0

\* String.prototype.toLowerCase
toLowerCase(s) ==
    [i \in 1..Len(s) |->
        IF LetterIndex(s[i], UpperCase) # 0 THEN LowerCase[LetterIndex(s[i], UpperCase)] ELSE s[i]]

\* path.basename: trailing separators are dropped, then everything up to
\* the last separator.
RECURSIVE StripTrailing(_, _)
StripTrailing(s, C) ==
    IF s # <<>> /\ s[Len(s)] \in C THEN StripTrailing(SubSeq(s, 1, Len(s) - 1), C) ELSE s

basename(p) ==
    LET q == StripTrailing(p, {"/"})
        slashes == {i \in 1..Len(q) : q[i] = "/"}
        last == IF slashes = {} THEN 0 ELSE CHOOSE i \in slashes : \A j \in slashes : j <= i
    IN  SubSeq(q, last + 1, Len(q))

-----------------------------------------------------------------------------
(* Lines 16-31: ordering, grouping, escaping. *)

\* the collation weight of a character: letters in alphabetical order
\* whatever their case, any other character before the letters
Primary(c) == LetterIndex(toLowerCase(<<c>>)[1], LowerCase)

\* lexicographic comparison of two weight sequences: -1, 0 or 1
RECURSIVE CompareWeights(_, _)
CompareWeights(a, b) ==
    IF a = <<>> /\ b = <<>> THEN 0
    ELSE IF a = <<>> THEN -1
    ELSE IF b = <<>> THEN 1
    ELSE IF Head(a) < Head(b) THEN -1
    ELSE IF Head(a) > Head(b) THEN 1
    ELSE CompareWeights(Tail(a), Tail(b))

\* String.prototype.localeCompare: the letters decide first, and between
\* strings that differ only in case the lower-case letter comes first
localeCompare(a, b) ==
    LET pa == [i \in 1..Len(a) |-> Primary(a[i])]
        pb == [i \in 1..Len(b) |-> Primary(b[i])]
        ca == [i \in 1..Len(a) |-> IF LetterIndex(a[i], UpperCase) # 0 THEN 1 ELSE 0]
        cb == [i \in 1..Len(b) |-> IF LetterIndex(b[i], UpperCase) # 0 THEN 1 ELSE 0]
    IN  IF CompareWeights(pa, pb) # 0 THEN CompareWeights(pa, pb) ELSE CompareWeights(ca, cb)

\* the comparator without its second key
CompareBrandOnly(a, b) == localeCompare(a.brand, b.brand)

\* line 16: the comparator handed to cameras.sort; x || y is y when x is 0
CompareCameras(a, b) ==
    IF localeCompare(a.brand, b.brand) # 0
    THEN localeCompare(a.brand, b.brand)
    ELSE a.yearStart - b.yearStart

\* Array.prototype.sort is stable: an element goes after every element
\* that does not compare greater than it
RECURSIVE InsertSorted(_, _)
InsertSorted(sorted, x) ==
    IF sorted = <<>> THEN <<x>>
    ELSE IF CompareCameras(Head(sorted), x) <= 0
         THEN <<Head(sorted)>> \o InsertSorted(Tail(sorted), x)
         ELSE <<x>> \o sorted

RECURSIVE SortCameras(_)
SortCameras(cs) ==
    IF cs = <<>> THEN <<>>
    ELSE InsertSorted(SortCameras(SubSeq(cs, 1, Len(cs) - 1)), cs[Len(cs)])

\* lines 19-23: one forward pass over the sorted records
GroupByBrand(cs) ==
    [b \in {cs[i].brand : i \in 1..Len(cs)} |-> SelectSeq(cs, LAMBDA c : c.brand = b)]

\* brands[brand] || []
BrandGroup(bs, b) == IF b \in DOMAIN bs THEN bs[b] ELSE <<>>

\* the display order replaced by the alphabetical order of the same brands
brandOrderAlphabetical == <<
    <<"M", "a", "m", "i", "y", "a">>,
    <<"M", "i", "n", "o", "l", "t", "a">>,
    <<"R", "o", "l", "l", "e", "i">>,
    <<"Y", "a", "s", "h", "i", "c", "a">> >>

\* line 26
brandOrder == <<
    <<"R", "o", "l", "l", "e", "i">>,
    <<"Y", "a", "s", "h", "i", "c", "a">>,
    <<"M", "a", "m", "i", "y", "a">>,
    <<"M", "i", "n", "o", "l", "t", "a">> >>

\* lines 28-31: nothing for a falsy argument, else four replacements in
\* this order
escHtml(s) ==
    IF s = <<>> THEN <<>>
    ELSE ReplaceAll(ReplaceAll(ReplaceAll(ReplaceAll(s,
            "&", <<"&", "a", "m", "p", ";">>),
            "<", <<"&", "l", "t", ";">>),
            ">", <<"&", "g", "t", ";">>),
            "\"", <<"&", "q", "u", "o", "t", ";">>)

-----------------------------------------------------------------------------
(* Pieces of a rendered document. *)

\* literal text of a template
Lit(t) == [lit |-> t]

\* a value of the program itself interpolated into a template
Const(t) == [const |-> t]

\* a value taken from the record field f interpolated into a template
Val(f, t) == [field |-> f, text |-> t]

IsVal(p) == Has(p, "field")

\* a field that is present and is neither '' nor an empty array
Truthy(r, f) == Has(r, f) /\ r[f] # <<>>

\* a numeric field that is present and is not 0
TruthyNum(r, f) == Has(r, f) /\ r[f] # 0

\* escHtml(r.f), where an absent field is undefined
EscField(r, f) == escHtml(IF Has(r, f) THEN r[f] ELSE <<>>)

-----------------------------------------------------------------------------
(* Lines 33-118: the fragment helpers. *)

conditions == <<"poor", "average", "good", "excellent", "mint">>

labels == <<"Poor", "Average", "Good", "Excellent", "Mint">>

\* lines 38-43
PriceRows(pricing) ==
    LET Row(i) ==
            IF Has(pricing, conditions[i])
            THEN << Lit("<tr><td>"), Lit(labels[i]), Lit("</td><td>$"),
                    Val("pricing.min", ToStr(pricing[conditions[i]].min)),
                    Lit(" {ndash} $"),
                    Val("pricing.max", ToStr(pricing[conditions[i]].max)),
                    Lit("</td></tr>") >>
            ELSE <<>>
    IN  Row(1) \o Row(2) \o Row(3) \o Row(4) \o Row(5)

\* lines 33-54
formatPrice(cam) ==
    IF ~Has(cam, "pricing") THEN <<>>
    ELSE IF PriceRows(cam.pricing) = <<>> THEN <<>>
    ELSE << Lit("<div class=\"pricing-table\">"),
            Lit("<h3>Current Market Prices (USD)</h3>"),
            Lit("<table>"),
            Lit("<thead><tr><th scope=\"col\">Condition</th><th scope=\"col\">Price Range</th></tr></thead>"),
            Lit("<tbody>") >>
         \o PriceRows(cam.pricing)
         \o << Lit("</tbody>"), Lit("</table>") >>
         \o (IF Truthy(cam.pricing, "source")
             THEN << Lit("<p class=\"price-source\">Source: "),
                     Val("pricing.source", escHtml(cam.pricing.source)),
                     Lit("</p>") >>
             ELSE <<>>)
         \o << Lit("</div>") >>

\* lines 58-68
specFields == <<
    <<"takingLens", "Taking Lens">>,
    <<"viewingLens", "Viewing Lens">>,
    <<"elements", "Lens Elements">>,
    <<"shutter", "Shutter">>,
    <<"shutterSpeeds", "Shutter Speeds">>,
    <<"meter", "Light Meter">>,
    <<"filterMount", "Filter Mount">>,
    <<"focusing", "Focusing">>,
    <<"weight", "Weight">> >>

\* lines 56-76
specsTable(cam) ==
    IF ~Has(cam, "specs") THEN <<>>
    ELSE LET Row(f) ==
                IF Truthy(cam.specs, f[1])
                THEN << Lit("<tr><td>"), Lit(f[2]), Lit("</td><td>"),
                        Val("specs", escHtml(cam.specs[f[1]])),
                        Lit("</td></tr>") >>
                ELSE <<>>
         IN  << Lit("<table class=\"specs-table\" role=\"table\" aria-label=\"Camera specifications\"><tbody>") >>
          \o Flatten([i \in 1..Len(specFields) |-> Row(specFields[i])])
          \o << Lit("</tbody></table>") >>

\* the brand's records without the exclusion of cam itself
SiblingsWithSelf(cam, bs) == BrandGroup(bs, cam.brand)

\* line 80: the records of cam's brand other than cam itself
Siblings(cam, bs) == SelectSeq(BrandGroup(bs, cam.brand), LAMBDA c : c.id # cam.id)

\* lines 78-86
relatedCameras(cam, bs) ==
    IF Siblings(cam, bs) = <<>> THEN <<>>
    ELSE LET Link(c) == << Lit("<a href=\"/cameras/"), Val("related.id", c.id), Lit(".html\">"),
                           Val("related.fullName", EscField(c, "fullName")), Lit("</a>") >>
         IN  << Lit("<div class=\"related\"><h3>More "),
                Val("brand", escHtml(cam.brand)),
                Lit(" TLR Cameras</h3><p>") >>
          \o Join([i \in 1..Len(Siblings(cam, bs)) |-> Link(Siblings(cam, bs)[i])], <<Lit(", ")>>)
          \o << Lit("</p></div>") >>

\* lines 88-94
articlesList(cam) ==
    IF ~Truthy(cam, "articles") THEN <<>>
    ELSE LET Item(a) == << Lit("<li><a href=\""), Val("articles.url", EscField(a, "url")),
                           Lit("\" target=\"_blank\" rel=\""), Lit("noopener"), Lit("\">"),
                           Val("articles.title", EscField(a, "title")),
                           Lit("</a> <span class=\"source\">{mdash} "),
                           Val("articles.source", EscField(a, "source")),
                           Lit("</span></li>") >>
         IN  << Lit("<div class=\"resources\"><h3>Articles &amp; Reviews</h3><ul>") >>
          \o Flatten([i \in 1..Len(cam.articles) |-> Item(cam.articles[i])])
          \o << Lit("</ul></div>") >>

\* lines 96-102
manualsList(cam) ==
    IF ~Truthy(cam, "manuals") THEN <<>>
    ELSE LET Item(m) == << Lit("<li><a href=\""), Val("manuals.url", EscField(m, "url")),
                           Lit("\" target=\"_blank\" rel=\""), Lit("noopener"), Lit("\">"),
                           Val("manuals.source", EscField(m, "source")),
                           Lit("</a></li>") >>
         IN  << Lit("<div class=\"resources\"><h3>Manuals &amp; Documentation</h3><ul>") >>
          \o Flatten([i \in 1..Len(cam.manuals) |-> Item(cam.manuals[i])])
          \o << Lit("</ul></div>") >>

\* the test for the domain made an equality with the domain
isGoogleExact(g) == Truthy(g, "url") /\ g.url = <<"g", "o", "o", "g", "l", "e", ".", "c", "o", "m">>

\* line 108: g.url && g.url.includes('google.com')
isGoogle(g) == Truthy(g, "url") /\ Includes(g.url, <<"g", "o", "o", "g", "l", "e", ".", "c", "o", "m">>)

\* line 109
GalleryRel(g) == IF isGoogle(g) THEN "noopener nofollow" ELSE "noopener"

\* lines 104-113
galleriesList(cam) ==
    IF ~Truthy(cam, "galleries") THEN <<>>
    ELSE LET Item(g) == << Lit("<li><a href=\""), Val("galleries.url", EscField(g, "url")),
                           Lit("\" target=\"_blank\" rel=\""), Lit(GalleryRel(g)), Lit("\">"),
                           Val("galleries.label", EscField(g, "label")),
                           Lit("</a></li>") >>
         IN  << Lit("<div class=\"resources\"><h3>Photo Galleries</h3><ul>") >>
          \o Flatten([i \in 1..Len(cam.galleries) |-> Item(cam.galleries[i])])
          \o << Lit("</ul></div>") >>

\* lines 115-118
imageAttribution(cam) ==
    IF ~Has(cam, "imageAttribution") THEN <<>>
    ELSE << Lit("<p class=\"attribution\">Photo: "),
            Val("imageAttribution.author", EscField(cam.imageAttribution, "author")),
            Lit(" {middot} <a href=\""),
            Val("imageAttribution.licenseUrl", EscField(cam.imageAttribution, "licenseUrl")),
            Lit("\" target=\"_blank\" rel=\""), Lit("noopener"), Lit("\">"),
            Val("imageAttribution.license", EscField(cam.imageAttribution, "license")),
            Lit("</a> {middot} <a href=\""),
            Val("imageAttribution.sourceUrl", EscField(cam.imageAttribution, "sourceUrl")),
            Lit("\" target=\"_blank\" rel=\""), Lit("noopener"), Lit("\">"),
            Lit("Source</a></p>") >>

-----------------------------------------------------------------------------
(* Lines 120-140: the structured-data block. *)

\* what JSON.stringify does inside a string: backslash and quote escaped
JsonEscape(s) == ReplaceAll(ReplaceAll(s, "\\", <<"\\", "\\">>), "\"", <<"\\", "\"">>)

\* line 134: cam.pricing.poor?.min || cam.pricing.average.min
lowPrice(pricing) ==
    IF Has(pricing, "poor") /\ pricing.poor.min # 0
    THEN pricing.poor.min
    ELSE pricing.average.min

\* line 135: mint?.max || excellent?.max || average.max
highPrice(pricing) ==
    IF Has(pricing, "mint") /\ pricing.mint.max # 0 THEN pricing.mint.max
    ELSE IF Has(pricing, "excellent") /\ pricing.excellent.max # 0 THEN pricing.excellent.max
    ELSE pricing.average.max

\* line 130: cam.pricing && cam.pricing.average
HasOffers(cam) == Has(cam, "pricing") /\ Has(cam.pricing, "average")

\* path.basename(cam.localImage) where cam.localImage is truthy, else null
ImgFile(cam) == IF Truthy(cam, "localImage") THEN basename(cam.localImage) ELSE <<>>

\* lines 120-140; JSON.stringify leaves out a key whose value is undefined
jsonLd(cam) ==
    << Lit("<script type=\"application/ld+json\">"),
       Lit("{\"@context\":\"https://schema.org\",\"@type\":\"Product\",\"name\":\""),
       Val("fullName", JsonEscape(cam.fullName)),
       Lit("\",\"description\":\"") >>
    \o (IF Truthy(cam, "tagline")
        THEN << Val("tagline", JsonEscape(cam.tagline)) >>
        ELSE << Val("fullName", JsonEscape(cam.fullName)), Lit(" twin-lens reflex camera") >>)
    \o << Lit("\",\"brand\":{\"@type\":\"Brand\",\"name\":\""),
          Val("brand", JsonEscape(cam.brand)),
          Lit("\"},\"category\":\"Twin-Lens Reflex Camera\"") >>
    \o (IF Truthy(cam, "localImage")
        THEN << Lit(",\"image\":\"https://metergeist.com/images/"),
                Val("localImage", JsonEscape(basename(cam.localImage))),
                Lit("\"") >>
        ELSE <<>>)
    \o (IF HasOffers(cam)
        THEN << Lit(",\"offers\":{\"@type\":\"AggregateOffer\",\"priceCurrency\":\"USD\",\"lowPrice\":"),
                Val("offers.lowPrice", ToStr(lowPrice(cam.pricing))),
                Lit(",\"highPrice\":"),
                Val("offers.highPrice", ToStr(highPrice(cam.pricing))),
                Lit(",\"offerCount\":1}") >>
        ELSE <<>>)
    \o << Lit("}"), Lit("</script>") >>

-----------------------------------------------------------------------------
(* Lines 143-264: the page of one record. *)

\* lines 144 and 274
Years(cam) ==
    IF TruthyNum(cam, "yearEnd")
    THEN ToStr(cam.yearStart) \o <<"{ndash}">> \o ToStr(cam.yearEnd)
    ELSE ToStr(cam.yearStart)

\* line 145: the tagline, or its default, without a final full stop and
\* the white space after it
taglineClean(cam) ==
    LET t == IF Truthy(cam, "tagline") THEN cam.tagline
             ELSE <<"T", "w", "i", "n", "-", "l", "e", "n", "s", " ", "r", "e", "f", "l", "e", "x",
                    " ", "c", "a", "m", "e", "r", "a">>
        u == StripTrailing(t, {" ", "\t", "\n"})
    IN  IF u # <<>> /\ u[Len(u)] = "." THEN SubSeq(u, 1, Len(u) - 1) ELSE t

\* line 146
metaDesc(cam) ==
    cam.fullName \o <<" ", "(">> \o Years(cam) \o <<")", " ", "{mdash}", " ">> \o taglineClean(cam)
    \o <<".", " ", "S", "p", "e", "c", "s", ",", " ", "p", "r", "i", "c", "i", "n", "g", ",", " ",
         "h", "i", "s", "t", "o", "r", "y", ",", " ", "a", "n", "d", " ", "r", "e", "s", "o", "u",
         "r", "c", "e", "s", ".">>

\* lines 149-151
featuresHtml(cam) ==
    IF Truthy(cam, "features")
    THEN << Lit("<ul class=\"features-list\">") >>
         \o Flatten([i \in 1..Len(cam.features) |->
                        << Lit("<li>"), Val("features", escHtml(cam.features[i])), Lit("</li>") >>])
         \o << Lit("</ul>") >>
    ELSE <<>>

\* lines 153-155
innovationsHtml(cam) ==
    IF Truthy(cam, "innovations")
    THEN << Lit("<div class=\"innovations\"><h3>Innovations</h3><ul>") >>
         \o Flatten([i \in 1..Len(cam.innovations) |->
                        << Lit("<li>"), Val("innovations", escHtml(cam.innovations[i])), Lit("</li>") >>])
         \o << Lit("</ul></div>") >>
    ELSE <<>>

\* lines 157-167: a titled paragraph for a narrative field that is truthy
Narrative(cam, f, open) ==
    IF Truthy(cam, f)
    THEN << Lit(open), Val(f, escHtml(cam[f])), Lit("</p></div>") >>
    ELSE <<>>

famousUsersHtml(cam) ==
    Narrative(cam, "famousUsers", "<div class=\"famous-users\"><h3>Notable Photographers</h3><p>")

popCultureHtml(cam) ==
    Narrative(cam, "popCulture", "<div class=\"pop-culture\"><h3>Cultural Significance</h3><p>")

notesHtml(cam) ==
    Narrative(cam, "notes", "<div class=\"collector-notes\"><h3>Collector Notes</h3><p>")

\* lines 169-171
ebayHtml(cam) ==
    IF Truthy(cam, "ebayUrl")
    THEN << Lit("<p class=\"shop-link\"><a href=\""), Val("ebayUrl", escHtml(cam.ebayUrl)),
            Lit("\" target=\"_blank\" rel=\""), Lit("noopener nofollow sponsored"), Lit("\">"),
            Lit("Shop for "), Val("fullName", EscField(cam, "fullName")), Lit(" on eBay</a></p>") >>
    ELSE <<>>

\* lines 173-190
PageHead(cam) ==
    << Lit("<!DOCTYPE html><html lang=\"en\"><head><meta charset=\"UTF-8\"><meta name=\"viewport\" content=\"width=device-width, initial-scale=1.0\">"),
       Lit("<title>"), Val("fullName", EscField(cam, "fullName")),
       Lit(" {mdash} TLR Camera Guide | metergeist</title>"),
       Lit("<meta name=\"description\" content=\""), Val("metaDesc", escHtml(metaDesc(cam))), Lit("\">"),
       Lit("<meta property=\"og:title\" content=\""), Val("fullName", EscField(cam, "fullName")),
       Lit(" {mdash} TLR Camera Guide\">"),
       Lit("<meta property=\"og:description\" content=\""), Val("metaDesc", escHtml(metaDesc(cam))), Lit("\">"),
       Lit("<meta property=\"og:type\" content=\"article\">"),
       Lit("<meta property=\"og:url\" content=\"https://metergeist.com/cameras/"), Val("id", cam.id),
       Lit(".html\">") >>
    \o (IF ImgFile(cam) # <<>>
        THEN << Lit("<meta property=\"og:image\" content=\"https://metergeist.com/images/"),
                Val("localImage", ImgFile(cam)), Lit("\">") >>
        ELSE <<>>)
    \o << Lit("<link rel=\"stylesheet\" href=\"/style.css\"><link rel=\"stylesheet\" href=\"/cameras/cameras.css\"><link rel=\"icon\" href=\"/icon.png\" type=\"image/png\">"),
          Lit("<link rel=\"canonical\" href=\"https://metergeist.com/cameras/"), Val("id", cam.id),
          Lit(".html\">") >>
    \o jsonLd(cam)
    \o << Lit("</head>") >>

\* lines 191-203 and 255-264, the same in every page and in the index
NavHtml == Lit("<body><a href=\"#main\" class=\"skip-link\">Skip to content</a><nav aria-label=\"Main navigation\">...</nav>")

FooterHtml == Lit("<footer>&copy; 2026 metergeist<div class=\"links\">...</div></footer></body></html>")

\* lines 205-253
PageBody(cam, bs) ==
    << Lit("<main id=\"main\"><div class=\"content camera-page\">"),
       Lit("<p class=\"breadcrumb\"><a href=\"/cameras/\">TLR Camera Guide</a> &rsaquo; <a href=\"/cameras/#"),
       Val("brand", toLowerCase(cam.brand)), Lit("\">"), Val("brand", escHtml(cam.brand)),
       Lit("</a> &rsaquo; "), Val("fullName", EscField(cam, "fullName")), Lit("</p>"),
       Lit("<h1>"), Val("fullName", EscField(cam, "fullName")), Lit("</h1>") >>
    \o (IF Truthy(cam, "tagline")
        THEN << Lit("<p class=\"cam-tagline\">"), Val("tagline", escHtml(cam.tagline)), Lit("</p>") >>
        ELSE <<>>)
    \o << Lit("<div class=\"cam-meta\">"),
          Lit("<span class=\"cam-years\">"), Val("years", Years(cam)), Lit("</span>"),
          Lit("<span class=\"cam-format\">"), Val("format", EscField(cam, "format")), Lit(" on "),
          Val("film", escHtml(Join(IF Has(cam, "film") THEN cam.film ELSE << <<"1", "2", "0">> >>, <<"/">>))),
          Lit(" film</span>") >>
    \o (IF Truthy(cam, "madeIn")
        THEN << Lit("<span class=\"cam-origin\">Made in "), Val("madeIn", escHtml(cam.madeIn)), Lit("</span>") >>
        ELSE <<>>)
    \o << Lit("</div>"), Lit("<div class=\"cam-layout\">") >>
    \o (IF ImgFile(cam) # <<>>
        THEN << Lit("<div class=\"cam-image\">"),
                Lit("<img src=\"/images/"), Val("localImage", ImgFile(cam)), Lit("\" alt=\""),
                Val("fullName", EscField(cam, "fullName")),
                Lit(" twin-lens reflex camera\" loading=\"lazy\">") >>
             \o imageAttribution(cam)
             \o << Lit("</div>") >>
        ELSE <<>>)
    \o << Lit("<div class=\"cam-details\">"), Lit("<h2>Specifications</h2>") >>
    \o specsTable(cam)
    \o featuresHtml(cam)
    \o << Lit("</div>"), Lit("</div>") >>
    \o (IF Truthy(cam, "history")
        THEN << Lit("<div class=\"cam-history\"><h2>History</h2><p>"), Val("history", escHtml(cam.history)),
                Lit("</p></div>") >>
        ELSE <<>>)
    \o famousUsersHtml(cam)
    \o popCultureHtml(cam)
    \o innovationsHtml(cam)
    \o notesHtml(cam)
    \o formatPrice(cam)
    \o ebayHtml(cam)
    \o articlesList(cam)
    \o manualsList(cam)
    \o galleriesList(cam)
    \o relatedCameras(cam, bs)
    \o << Lit("<div class=\"app-cta\"><h3>Shoot with your "), Val("fullName", EscField(cam, "fullName")),
          Lit("</h3><p>...</p></div>"),
          Lit("</div></main>") >>

\* lines 173-264
PageHtml(cam, bs) == PageHead(cam) \o <<NavHtml>> \o PageBody(cam, bs) \o <<FooterHtml>>

-----------------------------------------------------------------------------
(* Lines 269-368: the index. *)

\* line 275: cam.pricing?.average
HasAverage(cam) == Has(cam, "pricing") /\ Has(cam.pricing, "average")

\* lines 272-287: the card of one record
Card(cam) ==
    << Lit("<a href=\"/cameras/"), Val("id", cam.id), Lit(".html\" class=\"camera-card\">") >>
    \o (IF ImgFile(cam) # <<>>
        THEN << Lit("<img src=\"/images/"), Val("localImage", ImgFile(cam)), Lit("\" alt=\""),
                Val("fullName", EscField(cam, "fullName")), Lit(" TLR camera\" loading=\"lazy\">") >>
        ELSE <<>>)
    \o << Lit("<div class=\"card-info\">"),
          Lit("<h3>"), Val("fullName", EscField(cam, "fullName")), Lit("</h3>"),
          Lit("<span class=\"card-years\">"), Val("years", Years(cam)), Lit("</span>") >>
    \o (IF HasAverage(cam)
        THEN << Lit("<span class=\"card-price\">$"),
                Val("pricing.min", ToStr(cam.pricing.average.min)), Lit("{ndash}$"),
                Val("pricing.max", ToStr(cam.pricing.average.max)), Lit(" avg</span>") >>
        ELSE <<>>)
    \o << Lit("</div>"), Lit("</a>") >>

\* lines 270-293: the section of one brand of brandOrder
BrandSection(brand, bs) ==
    << Lit("<div class=\"brand-section\" id=\""), Const(toLowerCase(brand)), Lit("\">"),
       Lit("<h2>"), Const(escHtml(brand)), Lit(" TLR Cameras</h2>"),
       Lit("<div class=\"camera-grid\">") >>
    \o Join([i \in 1..Len(BrandGroup(bs, brand)) |-> Card(BrandGroup(bs, brand)[i])], <<Lit("\n")>>)
    \o << Lit("</div>"), Lit("</div>") >>

\* lines 270-294
brandSections(bs) ==
    Join([i \in 1..Len(brandOrder) |-> BrandSection(brandOrder[i], bs)], <<Lit("\n")>>)

\* lines 296-368
IndexHtml(cs, bs) ==
    << Lit("<!DOCTYPE html><html lang=\"en\"><head>...<script type=\"application/ld+json\">{...\"numberOfItems\": "),
       Val("cameras.length", ToStr(Len(cs))),
       Lit("}</script></head>"),
       NavHtml,
       Lit("<main id=\"main\"><div class=\"content\"><h1>TLR Camera Guide</h1><p class=\"guide-intro\">A comprehensive guide to <strong>"),
       Val("cameras.length", ToStr(Len(cs))),
       Lit(" twin-lens reflex cameras</strong> ...</p><p class=\"guide-intro\">...</p>"),
       Lit("<div class=\"brand-nav\"><a href=\"#rollei\">Rolleiflex &amp; Rolleicord</a><a href=\"#yashica\">Yashica</a><a href=\"#mamiya\">Mamiya</a><a href=\"#minolta\">Minolta</a></div>") >>
    \o brandSections(bs)
    \o << Lit("<div class=\"app-cta\"><h2>Meter light for your TLR</h2><p>...</p></div>"),
          Lit("</div></main>"),
          FooterHtml >>

-----------------------------------------------------------------------------
(* The run, top to bottom. *)

\* String.prototype.endsWith
EndsWith(s, suffix) ==
    Len(s) >= Len(suffix) /\ SubSeq(s, Len(s) - Len(suffix) + 1, Len(s)) = suffix

DotJson == <<".", "j", "s", "o", "n">>

DotHtml == <<".", "h", "t", "m", "l">>

IndexName == <<"i", "n", "d", "e", "x", ".", "h", "t", "m", "l">>

\* line 12: readdirSync lists the directory and the filter keeps *.json
ReadDir ==
    /\ pc = "readdir"
    /\ files' = SelectSeq(dir, LAMBDA e : EndsWith(e.name, DotJson))
    /\ pc' = "parse"
    /\ k' = 1
    /\ UNCHANGED <<dir, cameras, brands, html, indexHtml, written, err, log>>

\* line 12: readdirSync throws, the directory is missing or unreadable
ReadDirFail ==
    /\ pc = "readdir"
    /\ pc' = "aborted"
    /\ err' = "input-access"
    /\ UNCHANGED <<dir, files, cameras, brands, k, html, indexHtml, written, log>>

\* a streaming build: every record is rendered and written as soon as it
\* is parsed
ParseFileAndWrite ==
    /\ pc = "parse"
    /\ k <= Len(files)
    /\ files[k].body.ok
    /\ cameras' = Append(cameras, files[k].body.rec)
    /\ written' = Append(written, [name |-> files[k].body.rec.id \o DotHtml,
                                   content |-> PageHtml(files[k].body.rec, brands)])
    /\ k' = k + 1
    /\ UNCHANGED <<dir, pc, files, brands, html, indexHtml, err, log>>

\* line 13: files.map reads and parses the next file
ParseFile ==
    /\ pc = "parse"
    /\ k <= Len(files)
    /\ files[k].body.ok
    /\ cameras' = Append(cameras, files[k].body.rec)
    /\ k' = k + 1
    /\ UNCHANGED <<dir, pc, files, brands, html, indexHtml, written, err, log>>

\* line 13: JSON.parse throws on the next file
ParseFail ==
    /\ pc = "parse"
    /\ k <= Len(files)
    /\ ~files[k].body.ok
    /\ pc' = "aborted"
    /\ err' = "malformed-record"
    /\ UNCHANGED <<dir, files, cameras, brands, k, html, indexHtml, written, log>>

\* line 16
Sort ==
    /\ pc = "parse"
    /\ k > Len(files)
    /\ cameras' = SortCameras(cameras)
    /\ pc' = "group"
    /\ UNCHANGED <<dir, files, brands, k, html, indexHtml, written, err, log>>

\* lines 19-23
Group ==
    /\ pc = "group"
    /\ brands' = GroupByBrand(cameras)
    /\ k' = 1
    /\ pc' = "page"
    /\ UNCHANGED <<dir, files, cameras, html, indexHtml, written, err, log>>

\* lines 143-264: the loop computes the page of the next record
RenderPage ==
    /\ pc = "page"
    /\ k <= Len(cameras)
    /\ html' = PageHtml(cameras[k], brands)
    /\ pc' = "write"
    /\ UNCHANGED <<dir, files, cameras, brands, k, indexHtml, written, err, log>>

\* a page is written only for a record whose brand the index lists
WritePageListedOnly ==
    /\ pc = "write"
    /\ written' = IF cameras[k].brand \in Range(brandOrder)
                  THEN Append(written, [name |-> cameras[k].id \o DotHtml, content |-> html])
                  ELSE written
    /\ k' = k + 1
    /\ pc' = "page"
    /\ UNCHANGED <<dir, files, cameras, brands, html, indexHtml, err, log>>

\* line 266: and writes it to <id>.html
WritePage ==
    /\ pc = "write"
    /\ written' = Append(written, [name |-> cameras[k].id \o DotHtml, content |-> html])
    /\ k' = k + 1
    /\ pc' = "page"
    /\ UNCHANGED <<dir, files, cameras, brands, html, indexHtml, err, log>>

\* line 266: writeFileSync throws, the output directory is missing or
\* unwritable
WritePageFail ==
    /\ pc = "write"
    /\ pc' = "aborted"
    /\ err' = "output-access"
    /\ UNCHANGED <<dir, files, cameras, brands, k, html, indexHtml, written, log>>

\* the index is computed without waiting for the end of the page loop
RenderIndexEarly ==
    /\ pc = "page"
    /\ indexHtml' = IndexHtml(cameras, brands)
    /\ pc' = "writeindex"
    /\ UNCHANGED <<dir, files, cameras, brands, k, html, written, err, log>>

\* lines 270-368: after the loop the index is computed
RenderIndex ==
    /\ pc = "page"
    /\ k > Len(cameras)
    /\ indexHtml' = IndexHtml(cameras, brands)
    /\ pc' = "writeindex"
    /\ UNCHANGED <<dir, files, cameras, brands, k, html, written, err, log>>

\* line 370
WriteIndex ==
    /\ pc = "writeindex"
    /\ written' = Append(written, [name |-> IndexName, content |-> indexHtml])
    /\ pc' = "log"
    /\ UNCHANGED <<dir, files, cameras, brands, k, html, indexHtml, err, log>>

\* line 370: writeFileSync throws
WriteIndexFail ==
    /\ pc = "writeindex"
    /\ pc' = "aborted"
    /\ err' = "output-access"
    /\ UNCHANGED <<dir, files, cameras, brands, k, html, indexHtml, written, log>>

\* line 372
Log ==
    /\ pc = "log"
    /\ log' = Len(cameras)
    /\ pc' = "done"
    /\ UNCHANGED <<dir, files, cameras, brands, k, html, indexHtml, written, err>>

Next ==
    \/ ReadDir
    \/ ReadDirFail
    \/ ParseFile
    \/ ParseFail
    \/ Sort
    \/ Group
    \/ RenderPage
    \/ WritePage
    \/ WritePageFail
    \/ RenderIndex
    \/ WriteIndex
    \/ WriteIndexFail
    \/ Log

-----------------------------------------------------------------------------
(* The inputs: what the data directory holds when the script starts. *)

\* the identifier of the record in the i-th entry: distinct entries hold
\* distinct identifiers
IdOf(i) == <<"c">> \o ToStr(i)

\* an entry whose name does not end with .json
OtherEntry(i) == [name |-> <<"f">> \o ToStr(i) \o <<".", "t", "x", "t">>, body |-> [ok |-> FALSE]]

\* a *.json entry that JSON.parse rejects
BadEntry(i) == [name |-> <<"f">> \o ToStr(i) \o DotJson, body |-> [ok |-> FALSE]]

\* a *.json entry holding the record r
JsonEntry(i, r) == [name |-> <<"f">> \o ToStr(i) \o DotJson, body |-> [ok |-> TRUE, rec |-> r]]

Rollei == <<"R", "o", "l", "l", "e", "i">>

Yashica == <<"Y", "a", "s", "h", "i", "c", "a">>

Mamiya == <<"M", "a", "m", "i", "y", "a">>

Zeiss == <<"Z", "e", "i", "s", "s">>

Minolta == <<"M", "i", "n", "o", "l", "t", "a">>

\* brand and first year of the records the directory may hold: two of one
\* brand, brands whose display order is not their alphabetical order, and
\* a brand outside the display order
SampleCameras == {<<Rollei, 1954>>, <<Rollei, 1937>>, <<Yashica, 1954>>, <<Mamiya, 1937>>, <<Zeiss, 1954>>}

\* a record with the required fields only
Plain(i, b, y) ==
    [id |-> IdOf(i), brand |-> b, fullName |-> b \o <<" ">> \o IdOf(i), yearStart |-> y,
     format |-> <<"6", "x", "6">>]

\* the state every run starts in, the directory holding the entries d
Start(d) ==
    /\ dir = d
    /\ pc = "readdir"
    /\ files = <<>>
    /\ cameras = <<>>
    /\ brands = <<>>
    /\ k = 0
    /\ html = <<>>
    /\ indexHtml = <<>>
    /\ written = <<>>
    /\ err = "none"
    /\ log = 0

PlainEntries(i) ==
    {OtherEntry(i), BadEntry(i)} \cup {JsonEntry(i, Plain(i, c[1], c[2])) : c \in SampleCameras}

\* the directory holds at most MaxFiles entries, in any enumeration order
Init ==
    \E n \in 0..MaxFiles :
        \E d \in [1..n -> UNION {PlainEntries(i) : i \in 1..n}] :
            /\ \A i \in 1..n : d[i] \in PlainEntries(i)
            /\ Start(d)

Spec == Init /\ [][Next]_vars

-----------------------------------------------------------------------------
(* Other populations of the data directory: one record, its optional       *)
(* fields drawn from small sets, or one malformed file.                    *)

\* the directory holds one *.json entry: a record of R or a malformed file
OneOf(R) == \E d \in {<<BadEntry(1)>>} \cup {<<JsonEntry(1, r)>> : r \in R} : Start(d)

\* the record of the single entry
Base == Plain(1, Rollei, 1954)

\* price ranges by condition, the cheapest grade with and without a zero
SamplePrices(poorMin) ==
    [poor |-> [min |-> poorMin, max |-> 80], average |-> [min |-> 100, max |-> 150],
     good |-> [min |-> 150, max |-> 200], excellent |-> [min |-> 200, max |-> 300],
     mint |-> [min |-> 400, max |-> 500]]

\* a pricing object for every set of conditions, the empty one included
SamplePricings ==
    {[c \in S |-> SamplePrices(m)[c]] : S \in SUBSET Range(conditions), m \in {50, 0}}

PricedRecords == {Base} \cup {("pricing" :> p) @@ Base : p \in SamplePricings}

InitPricing == OneOf(PricedRecords)

SpecPricing == InitPricing /\ [][Next]_vars

\* the most links one list of a record holds
MaxLinks == 2

\* a search-engine URL, two editorial URLs and a URL of neither kind
SampleUrls == {
    <<"g", "o", "o", "g", "l", "e", ".", "c", "o", "m", "/", "i">>,
    <<"f", "l", "i", "c", "k", "r", ".", "c", "o", "m", "/", "p">>,
    <<"c", "o", "m", "m", "o", "n", "s", ".", "w", "i", "k", "i", "m", "e", "d", "i", "a", ".",
      "o", "r", "g", "/", "w">>,
    <<"e", "x", "a", "m", "p", "l", "e", ".", "o", "r", "g", "/", "x">> }

SampleText == <<"S", "i", "t", "e">>

\* the lists of at most MaxLinks URLs
UrlLists == UNION {[1..n -> SampleUrls] : n \in 0..MaxLinks}

\* a record whose lists named in L hold one link per URL of us
Linked(L, us) ==
    (IF "articles" \in L
     THEN "articles" :> [i \in 1..Len(us) |-> [url |-> us[i], title |-> SampleText, source |-> SampleText]]
     ELSE <<>>)
    @@ (IF "manuals" \in L
        THEN "manuals" :> [i \in 1..Len(us) |-> [url |-> us[i], source |-> SampleText]]
        ELSE <<>>)
    @@ (IF "galleries" \in L
        THEN "galleries" :> [i \in 1..Len(us) |-> [url |-> us[i], label |-> SampleText]]
        ELSE <<>>)
    @@ Base

LinkedRecords ==
    {Linked(L, us) : L \in SUBSET {"articles", "manuals", "galleries"}, us \in UrlLists}
    \cup {("galleries" :> << [label |-> SampleText] >>) @@ Base}

InitLinks == OneOf(LinkedRecords)

SpecLinks == InitLinks /\ [][Next]_vars

\* a record with every optional field
Full ==
    [tagline |-> <<"C", "l", "a", "s", "s", "i", "c", ".">>, yearEnd |-> 1960, film |-> << <<"2", "2", "0">> >>, madeIn |-> <<"G", "e", "r", "m", "a", "n", "y">>,
     localImage |-> <<"i", "m", "a", "g", "e", "s", "/", "t", "l", "r", "/", "c", "1", ".", "j", "p", "g">>,
     imageAttribution |-> [author |-> SampleText, licenseUrl |-> <<"e", "x", "a", "m", "p", "l", "e", ".", "o", "r", "g", "/", "x">>, license |-> SampleText,
                           sourceUrl |-> <<"e", "x", "a", "m", "p", "l", "e", ".", "o", "r", "g", "/", "x">>],
     specs |-> [takingLens |-> <<"f", "/", "3", ".", "5">>, weight |-> SampleText],
     features |-> << SampleText >>, history |-> SampleText, famousUsers |-> SampleText,
     popCulture |-> SampleText, innovations |-> << SampleText >>, notes |-> SampleText,
     pricing |-> [average |-> [min |-> 100, max |-> 150], source |-> SampleText],
     ebayUrl |-> <<"e", "x", "a", "m", "p", "l", "e", ".", "o", "r", "g", "/", "x">>,
     articles |-> << [url |-> <<"e", "x", "a", "m", "p", "l", "e", ".", "o", "r", "g", "/", "x">>, title |-> SampleText, source |-> SampleText] >>,
     manuals |-> << [url |-> <<"e", "x", "a", "m", "p", "l", "e", ".", "o", "r", "g", "/", "x">>, source |-> SampleText] >>,
     galleries |-> << [url |-> <<"e", "x", "a", "m", "p", "l", "e", ".", "o", "r", "g", "/", "x">>, label |-> SampleText] >>]
    @@ Base

\* the optional fields of a record
OptionalFields == DOMAIN Full \ DOMAIN Base

\* the most optional fields a record lacks
MaxAbsent == 2

\* the full record without the fields of A
Without(A) == [f \in DOMAIN Full \ A |-> Full[f]]

SparseRecords == {Without(A) : A \in {B \in SUBSET OptionalFields : Cardinality(B) <= MaxAbsent}}

InitOmit == OneOf(SparseRecords)

SpecOmit == InitOmit /\ [][Next]_vars

\* the longest string drawn for a field
MaxStrLen == 2

\* a harmless character and the four characters escHtml replaces
SampleChars == {"a", "&", "<", ">", "\""}

\* the strings of 1 to MaxStrLen sample characters
SampleStrings == UNION {[1..n -> SampleChars] : n \in 1..MaxStrLen}

\* the records in which one string field holds the string t
Marked(t) ==
    {(f :> t) @@ Base : f \in {"id", "brand", "fullName", "tagline", "format", "madeIn", "localImage",
                              "history", "famousUsers", "popCulture", "notes", "ebayUrl"}}
    \cup {("film" :> << t >>) @@ Base,
          ("features" :> << t >>) @@ Base,
          ("innovations" :> << t >>) @@ Base,
          ("specs" :> [shutter |-> t]) @@ Base,
          ("pricing" :> [good |-> [min |-> 150, max |-> 200], source |-> t]) @@ Base,
          ("articles" :> << [url |-> t, title |-> t, source |-> t] >>) @@ Base,
          ("manuals" :> << [url |-> t, source |-> t] >>) @@ Base,
          ("galleries" :> << [url |-> t, label |-> t] >>) @@ Base,
          ("localImage" :> <<"i", "m", "a", "g", "e", "s", "/", "t", "l", "r", "/", "c", "1", ".", "j", "p", "g">>) @@ ("imageAttribution" :>
              [author |-> t, licenseUrl |-> t, license |-> t, sourceUrl |-> t]) @@ Base}

MarkedRecords == UNION {Marked(t) : t \in SampleStrings}

InitEsc == OneOf(MarkedRecords)

SpecEsc == InitEsc /\ [][Next]_vars

-----------------------------------------------------------------------------
(* Reading the inputs and the outputs of a run. *)

\* the records of the directory's well-formed *.json entries
InputRecords ==
    {dir[i].body.rec : i \in {j \in 1..Len(dir) : EndsWith(dir[j].name, DotJson) /\ dir[j].body.ok}}

\* the positions in the index at which the card of the record id starts
CardPositions(doc, id) ==
    {i \in 1..(Len(doc) - 2) :
        /\ doc[i] = Lit("<a href=\"/cameras/")
        /\ doc[i + 1] = Val("id", id)
        /\ doc[i + 2] = Lit(".html\" class=\"camera-card\">")}

HasCard(doc, id) == CardPositions(doc, id) # {}

\* both records have a card and every card of a is before every card of b
CardPrecedes(doc, a, b) ==
    /\ HasCard(doc, a.id)
    /\ HasCard(doc, b.id)
    /\ \A i \in CardPositions(doc, a.id), j \in CardPositions(doc, b.id) : i < j

\* the positions at which the titled section of the brand b starts
SectionPositions(doc, b) ==
    {i \in 1..(Len(doc) - 1) :
        /\ doc[i] = Lit("<div class=\"brand-section\" id=\"")
        /\ doc[i + 1] = Const(toLowerCase(b))}

\* the pieces of the section starting at i: up to the next section or the
\* end of the sections
SectionEnd(doc, i) ==
    LET later == {j \in (i + 1)..Len(doc) :
                    doc[j] = Lit("<div class=\"brand-section\" id=\"")
                    \/ doc[j] = Lit("<div class=\"app-cta\"><h2>Meter light for your TLR</h2><p>...</p></div>")}
    IN  IF later = {} THEN Len(doc) ELSE (CHOOSE j \in later : \A l \in later : j <= l) - 1

\* the identifiers of the cards inside the section starting at i
SectionCards(doc, i) ==
    {doc[j + 1].text : j \in {l \in i..(SectionEnd(doc, i) - 2) :
        /\ doc[l] = Lit("<a href=\"/cameras/")
        /\ IsVal(doc[l + 1])
        /\ doc[l + 2] = Lit(".html\" class=\"camera-card\">")}}

IndexRendered == indexHtml # <<>>

\* the position of a brand in a sequence of brands, 0 if it is not in it
Rank(order, b) ==
    IF \E i \in 1..Len(order) : order[i] = b THEN CHOOSE i \in 1..Len(order) : order[i] = b ELSE 0

\* the fixed display order (Rollei, Yashica, Mamiya, Minolta) the claims
\* speak of
DisplayOrder == <<Rollei, Yashica, Mamiya, Minolta>>

\* the names of the files the run has written
WrittenNames == {written[i].name : i \in 1..Len(written)}

\* the record a written page belongs to
PageRecord(w) == CHOOSE c \in Range(cameras) : c.id \o DotHtml = w.name

PagesWritten == {w \in Range(written) : w.name # IndexName}

\* the identifiers the related-items block of a page links to
RelatedLinks(doc) ==
    {doc[i + 1].text : i \in {j \in 1..(Len(doc) - 1) :
        /\ doc[j] = Lit("<a href=\"/cameras/")
        /\ IsVal(doc[j + 1])
        /\ doc[j + 1].field = "related.id"}}

HasRelatedBlock(doc) == \E i \in 1..Len(doc) : doc[i] = Lit("<div class=\"related\"><h3>More ")

\* the pieces of doc interpolated from the field f, in order
ValsOf(doc, f) == SelectSeq(doc, LAMBDA p : IsVal(p) /\ p.field = f)

\* the conditions a pricing object holds, cheapest grade first
Available(pricing) == SelectSeq(conditions, LAMBDA c : Has(pricing, c))

\* the links of a list of a page: the URL as rendered and the rel value of
\* the link, the piece after the one that follows the URL
LinksOf(doc, f) ==
    {<<doc[i].text, doc[i + 2].lit>> : i \in {j \in 1..(Len(doc) - 2) : IsVal(doc[j]) /\ doc[j].field = f}}

Nofollow(rel) == rel \in {"noopener nofollow", "noopener nofollow sponsored"}

GoogleDomain == <<"g", "o", "o", "g", "l", "e", ".", "c", "o", "m">>

\* the allowlisted editorial domains the claim names
Editorial(url) ==
    \/ Includes(url, <<"f", "l", "i", "c", "k", "r", ".", "c", "o", "m">>)
    \/ Includes(url, <<"w", "i", "k", "i", "m", "e", "d", "i", "a", ".", "o", "r", "g">>)

\* what the claim counts as the section of an optional field: the
\* template text that opens it (heading, wrapper, table or list) and the
\* fields whose values are interpolated into it
SectionText ==
    [tagline |-> {"<p class=\"cam-tagline\">"},
     yearEnd |-> {},
     film |-> {},
     madeIn |-> {"<span class=\"cam-origin\">Made in "},
     localImage |-> {"<div class=\"cam-image\">", "<img src=\"/images/",
                     "<meta property=\"og:image\" content=\"https://metergeist.com/images/",
                     ",\"image\":\"https://metergeist.com/images/"},
     imageAttribution |-> {"<p class=\"attribution\">Photo: "},
     specs |-> {"<h2>Specifications</h2>",
                "<table class=\"specs-table\" role=\"table\" aria-label=\"Camera specifications\"><tbody>"},
     features |-> {"<ul class=\"features-list\">"},
     history |-> {"<div class=\"cam-history\"><h2>History</h2><p>"},
     famousUsers |-> {"<div class=\"famous-users\"><h3>Notable Photographers</h3><p>"},
     popCulture |-> {"<div class=\"pop-culture\"><h3>Cultural Significance</h3><p>"},
     innovations |-> {"<div class=\"innovations\"><h3>Innovations</h3><ul>"},
     notes |-> {"<div class=\"collector-notes\"><h3>Collector Notes</h3><p>"},
     pricing |-> {"<div class=\"pricing-table\">", "<h3>Current Market Prices (USD)</h3>", "<table>",
                  ",\"offers\":{\"@type\":\"AggregateOffer\",\"priceCurrency\":\"USD\",\"lowPrice\":"},
     ebayUrl |-> {"<p class=\"shop-link\"><a href=\""},
     articles |-> {"<div class=\"resources\"><h3>Articles &amp; Reviews</h3><ul>"},
     manuals |-> {"<div class=\"resources\"><h3>Manuals &amp; Documentation</h3><ul>"},
     galleries |-> {"<div class=\"resources\"><h3>Photo Galleries</h3><ul>"}]

SectionFields ==
    [tagline |-> {"tagline"},
     yearEnd |-> {},
     film |-> {"film"},
     madeIn |-> {"madeIn"},
     localImage |-> {"localImage"},
     imageAttribution |-> {"imageAttribution.author", "imageAttribution.licenseUrl",
                           "imageAttribution.license", "imageAttribution.sourceUrl"},
     specs |-> {"specs"},
     features |-> {"features"},
     history |-> {"history"},
     famousUsers |-> {"famousUsers"},
     popCulture |-> {"popCulture"},
     innovations |-> {"innovations"},
     notes |-> {"notes"},
     pricing |-> {"pricing.min", "pricing.max", "pricing.source", "offers.lowPrice", "offers.highPrice"},
     ebayUrl |-> {"ebayUrl"},
     articles |-> {"articles.url", "articles.title", "articles.source"},
     manuals |-> {"manuals.url", "manuals.source"},
     galleries |-> {"galleries.url", "galleries.label"}]

\* no piece of the section of the field X is in doc
SectionAbsent(doc, X) ==
    \A i \in 1..Len(doc) :
        /\ Has(doc[i], "lit") => doc[i].lit \notin SectionText[X]
        /\ IsVal(doc[i]) => doc[i].field \notin SectionFields[X]
        /\ (X = "yearEnd" /\ IsVal(doc[i]) /\ doc[i].field = "years") => "{ndash}" \notin Range(doc[i].text)

\* the four entities escHtml writes
Entities == {<<"&", "a", "m", "p", ";">>, <<"&", "l", "t", ";">>, <<"&", "g", "t", ";">>,
             <<"&", "q", "u", "o", "t", ";">>}

\* t holds none of < > " and no & that does not start an entity
EscapedText(t) ==
    \A i \in 1..Len(t) :
        /\ t[i] \notin {"<", ">", "\""}
        /\ t[i] = "&" => \E e \in Entities : i + Len(e) - 1 <= Len(t) /\ SubSeq(t, i, i + Len(e) - 1) = e

-----------------------------------------------------------------------------
(* Claims. *)

\* C1: a run that completes has written exactly one file <id>.html for
\* every record of the input, whatever its brand, and index.html, and
\* nothing else; index.html is written when there is no record at all.
C1_OnePagePerRecordAndIndex ==
    pc = "done" =>
        /\ WrittenNames = {r.id \o DotHtml : r \in InputRecords} \cup {IndexName}
        /\ Len(written) = Cardinality(InputRecords) + 1
        /\ \A r \in InputRecords :
              Cardinality({i \in 1..Len(written) : written[i].name = r.id \o DotHtml}) = 1

\* a completed run over records of a listed brand and of the brand outside
\* the display order
C1_Witness ==
    /\ pc = "done"
    /\ \E r \in InputRecords : r.brand = Zeiss
    /\ \E r \in InputRecords : r.brand = Rollei

\* C2 as stated: of two records with a card in the index, the one whose
\* brand is lexicographically smaller has its card first.
C2_CardsInLexicographicBrandOrder ==
    IndexRendered =>
        \A a \in Range(cameras), b \in Range(cameras) :
            (/\ HasCard(indexHtml, a.id)
             /\ HasCard(indexHtml, b.id)
             /\ localeCompare(a.brand, b.brand) < 0)
            => CardPrecedes(indexHtml, a, b)

\* C2 amended: of two records with a card in the index, the one whose
\* brand comes earlier in the fixed display order has its card first,
\* whatever the enumeration order of the input files.
C2_CardsInDisplayOrder ==
    IndexRendered =>
        \A a \in Range(cameras), b \in Range(cameras) :
            (/\ HasCard(indexHtml, a.id)
             /\ HasCard(indexHtml, b.id)
             /\ Rank(DisplayOrder, a.brand) < Rank(DisplayOrder, b.brand))
            => CardPrecedes(indexHtml, a, b)

\* an index with a Yashica and a Mamiya card, the Mamiya file enumerated
\* first
C2_Witness ==
    /\ IndexRendered
    /\ \E i \in 1..Len(files), j \in 1..Len(files) :
          /\ i < j
          /\ files[i].body.rec.brand = Mamiya
          /\ files[j].body.rec.brand = Yashica
          /\ HasCard(indexHtml, files[i].body.rec.id)
          /\ HasCard(indexHtml, files[j].body.rec.id)

\* C3: of two records of one brand, the one with the smaller yearStart is
\* first in the brand's group and, when the brand has a section in the
\* index, has its card first, whatever the enumeration order of the files.
C3_SameBrandByYear ==
    \A a \in Range(cameras), b \in Range(cameras) :
        (a.brand = b.brand /\ a.yearStart < b.yearStart) =>
            /\ (pc \in {"page", "write", "writeindex", "log", "done"} =>
                    /\ a \in Range(brands[a.brand])
                    /\ b \in Range(brands[a.brand])
                    /\ \A i \in 1..Len(brands[a.brand]), j \in 1..Len(brands[a.brand]) :
                          (brands[a.brand][i] = a /\ brands[a.brand][j] = b) => i < j)
            /\ ((IndexRendered /\ a.brand \in Range(DisplayOrder)) => CardPrecedes(indexHtml, a, b))

\* the index of a run in which the Rollei of 1954 was enumerated before the
\* Rollei of 1937
C3_Witness ==
    /\ IndexRendered
    /\ \E i \in 1..Len(files), j \in 1..Len(files) :
          /\ i < j
          /\ files[i].body.rec.brand = Rollei /\ files[i].body.rec.yearStart = 1954
          /\ files[j].body.rec.brand = Rollei /\ files[j].body.rec.yearStart = 1937
          /\ CardPrecedes(indexHtml, files[j].body.rec, files[i].body.rec)

\* C5: the related-items block of the page of a record R links to exactly
\* the other records of R's brand, never to R, and is left out exactly when
\* R is the only record of its brand.
C5_RelatedItems ==
    \A w \in PagesWritten :
        LET R == PageRecord(w)
            others == {c.id : c \in {x \in Range(cameras) : x.brand = R.brand /\ x # R}}
        IN  /\ RelatedLinks(w.content) = others
            /\ R.id \notin RelatedLinks(w.content)
            /\ HasRelatedBlock(w.content) <=> others # {}

\* a written page with a related-items block, of a collection that also
\* holds a record of another brand
C5_Witness ==
    \E w \in PagesWritten :
        /\ HasRelatedBlock(w.content)
        /\ \E c \in Range(cameras) : c.brand # PageRecord(w).brand

\* C9: a run ended by an input-access or a malformed-record error has
\* written no file, wherever the malformed file is in the enumeration.
C9_NoOutputOnInputError ==
    err \in {"input-access", "malformed-record"} => written = <<>>

\* a run aborted on a malformed file that came after two well-formed ones
C9_Witness ==
    /\ err = "malformed-record"
    /\ Len(cameras) >= 2
    /\ pc = "aborted"

\* C10 as stated: the index has a section for exactly the brands of the
\* display order that have a record, in the display order, and a section
\* holds one card per record of its brand and no other card.
C10_SectionsOnlyForBrandsWithRecords ==
    IndexRendered =>
        /\ \A b \in Range(DisplayOrder) :
              /\ Cardinality(SectionPositions(indexHtml, b)) =
                    (IF \E c \in Range(cameras) : c.brand = b THEN 1 ELSE 0)
              /\ \A i \in SectionPositions(indexHtml, b) :
                    SectionCards(indexHtml, i) = {c.id : c \in {x \in Range(cameras) : x.brand = b}}
        /\ \A a \in Range(DisplayOrder), b \in Range(DisplayOrder) :
              Rank(DisplayOrder, a) < Rank(DisplayOrder, b) =>
                  \A i \in SectionPositions(indexHtml, a), j \in SectionPositions(indexHtml, b) : i < j

\* C4 as stated: the page of a record whose pricing holds at least one
\* condition has an aggregate offer, its low bound the minimum of the
\* lowest-graded condition present and its high bound the maximum of the
\* highest-graded condition present.
C4_OfferSpansAvailableConditions ==
    \A w \in PagesWritten :
        LET R == PageRecord(w)
        IN  (Has(R, "pricing") /\ Available(R.pricing) # <<>>) =>
                LET av == Available(R.pricing)
                IN  /\ ValsOf(w.content, "offers.lowPrice") =
                          << Val("offers.lowPrice", ToStr(R.pricing[av[1]].min)) >>
                    /\ ValsOf(w.content, "offers.highPrice") =
                          << Val("offers.highPrice", ToStr(R.pricing[av[Len(av)]].max)) >>

\* C8 as stated: a link of the article, manual or gallery list carries
\* nofollow exactly when its URL is not on the editorial allowlist.
C8_NofollowUnlessAllowlisted ==
    \A w \in PagesWritten :
        \A f \in {"articles.url", "manuals.url", "galleries.url"} :
            \A l \in LinksOf(w.content, f) : Nofollow(l[2]) <=> ~Editorial(l[1])

\* C8 amended: a link of the photo-gallery list carries nofollow exactly
\* when its URL contains google.com, so a gallery entry on google.com gets
\* it and one on Flickr or Wikimedia does not; the links of the article
\* and manual lists never carry it.
C8_NofollowOnGoogleGalleries ==
    \A w \in PagesWritten :
        LET R == PageRecord(w)
        IN  /\ \A l \in LinksOf(w.content, "galleries.url") :
                  Nofollow(l[2]) <=> Includes(l[1], GoogleDomain)
            /\ \A l \in LinksOf(w.content, "articles.url") \cup LinksOf(w.content, "manuals.url") :
                  ~Nofollow(l[2])
            /\ Has(R, "galleries") =>
                  Len(ValsOf(w.content, "galleries.url")) = Len(R.galleries)

\* a written page with a google.com gallery link that carries nofollow and
\* a Flickr gallery link that does not
C8_Witness ==
    \E w \in PagesWritten :
        \E l \in LinksOf(w.content, "galleries.url"), m \in LinksOf(w.content, "galleries.url") :
            /\ Includes(l[1], GoogleDomain) /\ Nofollow(l[2])
            /\ Editorial(m[1]) /\ ~Nofollow(m[2])

\* C6 as stated: for every optional field a record lacks, the page holds
\* no piece of that field's section: no heading, no wrapper, no table or
\* list, no value and no default.
C6_AbsentFieldAbsentSection ==
    \A w \in PagesWritten :
        \A X \in OptionalFields :
            ~Has(PageRecord(w), X) => SectionAbsent(w.content, X)

\* C7 as stated: in every document written, the text interpolated from a
\* data field holds no unescaped < > & or ".
C7_DataIsEscaped ==
    \A w \in Range(written) :
        \A i \in 1..Len(w.content) :
            IsVal(w.content[i]) => EscapedText(w.content[i].text)

\* C11 as stated: every page, the index included, is computed before the
\* first output file is written, so that no file is written while a page
\* remains to be computed.
C11_AllPagesComputedBeforeFirstWrite ==
    written # <<>> => (k > Len(cameras) /\ IndexRendered)

\* C11 amended: every input file is read and parsed before any page is
\* computed; each per-camera page is computed and written at once, before
\* the page of the next record is computed; the index is computed only
\* after every per-camera page has been written, and index.html is written
\* last.
C11_ParseThenPageByPageThenIndex ==
    /\ (html # <<>> \/ IndexRendered \/ written # <<>>) =>
          /\ pc \notin {"readdir", "parse"}
          /\ Len(cameras) = Len(files)
          /\ Len(cameras) = Cardinality(InputRecords)
    /\ pc \in {"page", "write"} => (Len(written) = k - 1 /\ ~IndexRendered)
    /\ pc = "write" => html = PageHtml(cameras[k], brands)
    /\ Len(written) <= Len(cameras) + 1
    /\ \A i \in 1..Len(written) :
          IF i <= Len(cameras)
          THEN written[i].name = cameras[i].id \o DotHtml
          ELSE written[i] = [name |-> IndexName, content |-> indexHtml]
    /\ IndexRendered => Len(written) >= Len(cameras)

\* the page of the second record has just been computed while the first
\* record's file is already written and the index is not yet computed
C11_Witness ==
    /\ pc = "write"
    /\ k = 2
    /\ Len(written) = 1
    /\ html # <<>>
    /\ ~IndexRendered

=============================================================================
